---- MODULE Spec2Model ----
(***************************************************************************)
(* MindCare AI backend: the text-analysis pipeline (utils/analysis.py,     *)
(* models/model_loader.py) and the route handlers that wrap it            *)
(* (api/routes.py, main.py).                                               *)
(*                                                                         *)
(* Numbers.  A score or a sentiment compound is a rational number; the     *)
(* model keeps it as an integer numerator over the common denominator Den. *)
(* A rounded wellness score is kept in tenths (25 is 2.5).                 *)
(*                                                                         *)
(* Texts are sequences of one-character strings.                           *)
(***************************************************************************)
EXTENDS Integers, Sequences, FiniteSets, TLC

VARIABLES
    text_model,     \* models/model_loader.py: the global _text_model slot
    constructions,  \* TextAnalysisModel instances built so far in this process
    started,        \* main.py: startup_event has run
    last,           \* what the most recent handler did and answered
    vaderSeed,      \* which function of the text the VADER analyzer computes
    tieUp,          \* how round() resolves a decimal tie no double represents
    pure,           \* a pure function of utils/analysis.py, its arguments and result
    memo            \* an earlier call of model.analyze: its text and its result

vars == <<text_model, constructions, started, last, vaderSeed, tieUp, pure, memo>>

----------------------------------------------------------------------------
(* Bounds of the model *)

\* sentiment compounds are the multiples of 1/CompoundSteps in [-1, 1]
CompoundSteps == 100
\* negative_words counts 0..MaxNegativeWords
MaxNegativeWords == 5
\* get_interpretation is applied to the scores -ScoreSlack/10 .. 10 + ScoreSlack/10
ScoreSlack == 20
\* short texts have at most MaxTextChars characters
MaxTextChars == 2
\* short batches have at most MaxSmallBatch texts
MaxSmallBatch == 3
\* the construction counter stops the model at MaxConstructions
MaxConstructions == 2
MaxFeatureChars == 5

(* Program constants *)

\* routes.py: Field(..., max_length=5000)
MaxLength == 5000
\* routes.py: if len(texts) > 50
MaxBatch == 50

\* the common denominator of every unrounded score
Den == 2 * CompoundSteps

Labels == {"joy", "sadness", "anger", "anxiety", "neutral"}
\* "other" stands for any label outside the five known ones
AnyLabel == Labels \cup {"other"}

----------------------------------------------------------------------------
(* utils/analysis.py: calculate_wellness_score, get_interpretation *)

\* emotion_scores.get(emotion, 5.0), as a numerator over Den
emotion_scores(emotion) ==
    CASE emotion = "joy"     -> 8 * Den
      [] emotion = "neutral" -> 5 * Den
      [] emotion = "sadness" -> 3 * Den
      [] emotion = "anxiety" -> (7 * Den) \div 2
      [] emotion = "anger"   -> (5 * Den) \div 2
      [] OTHER               -> 5 * Den

min(a, b) == IF a <= b THEN a ELSE b
max(a, b) == IF a >= b THEN a ELSE b

\* a mutant of clamp: the lower bound is forgotten
clamp_no_floor(x) == min(10 * Den, x)

\* max(0, min(10, wellness_score))
clamp(x) == max(0, min(10 * Den, x))

\* round(x, 1) for x >= 0, in tenths.  Python rounds the double nearest to x:
\* a tie that a double represents exactly (x.25, x.75) goes to the even tenth,
\* any other decimal tie goes where the double's error puts it (up or down).
round1(x, up) ==
    LET q == (10 * x) \div Den
        r == (10 * x) % Den
    IN  IF 2 * r < Den THEN q
        ELSE IF 2 * r > Den THEN q + 1
        ELSE IF (4 * x) % Den = 0 THEN (IF q % 2 = 0 THEN q ELSE q + 1)
        ELSE IF up THEN q + 1 ELSE q

\* a mutant of calculate_wellness_score: clamp first, adjust afterwards
wellness_clamp_first(emotion, compound, negative_words, up) ==
    round1(clamp(emotion_scores(emotion)) + compound * 2
             - min((negative_words * Den) \div 2, 2 * Den), up)

\* calculate_wellness_score(emotion, sentiment, features): compound is
\* sentiment['compound'] over Den, negative_words is features['negative_words']
calculate_wellness_score(emotion, compound, negative_words, up) ==
    LET base_score           == emotion_scores(emotion)
        sentiment_adjustment == compound * 2
        negative_penalty     == min((negative_words * Den) \div 2, 2 * Den)
        wellness_score       == base_score + sentiment_adjustment - negative_penalty
    IN  round1(clamp(wellness_score), up)

\* a mutant of get_interpretation: the bands are cut with > instead of >=
interpretation_strict(score, emotion) ==
    [band |-> IF score > 75 THEN "positive"
              ELSE IF score > 50 THEN "balanced"
              ELSE IF score > 30 THEN "consider_talking"
              ELSE "reach_out",
     emotion |-> emotion]

\* get_interpretation(score, emotion): score in tenths; the sentence is kept
\* as its framing and the emotion it names
get_interpretation(score, emotion) ==
    [band |-> IF score >= 75 THEN "positive"
              ELSE IF score >= 50 THEN "balanced"
              ELSE IF score >= 30 THEN "consider_talking"
              ELSE "reach_out",
     emotion |-> emotion]

----------------------------------------------------------------------------
(* The pure functions applied to drawn arguments *)

Compounds == {2 * k : k \in (0 - CompoundSteps)..CompoundSteps}

NoInterpretation == [band |-> "none", emotion |-> "none"]

PureIdle ==
    [fn |-> "none", text |-> <<>>, emotion |-> "none", compound |-> 0,
     negative_words |-> 0, lexical_diversity |-> 0, total_words |-> 0, score |-> 0, done |-> FALSE, result |-> 0, interpretation |-> NoInterpretation]

PureArgs ==
    {[PureIdle EXCEPT !.fn = "calculate_wellness_score", !.emotion = e,
                      !.compound = c, !.negative_words = n] :
        e \in AnyLabel, c \in Compounds, n \in 0..MaxNegativeWords}
    \cup
    {[PureIdle EXCEPT !.fn = "get_interpretation", !.emotion = e, !.score = s] :
        e \in AnyLabel, s \in (0 - ScoreSlack)..(100 + ScoreSlack)}

CalcWellness ==
    /\ pure.fn = "calculate_wellness_score"
    /\ ~pure.done
    /\ pure' = [pure EXCEPT
                  !.done = TRUE,
                  !.result = calculate_wellness_score(pure.emotion, pure.compound,
                                                      pure.negative_words, tieUp)]
    /\ UNCHANGED <<text_model, constructions, started, last, vaderSeed, tieUp, memo>>

Interpret ==
    /\ pure.fn = "get_interpretation"
    /\ ~pure.done
    /\ pure' = [pure EXCEPT
                  !.done = TRUE,
                  !.interpretation = get_interpretation(pure.score, pure.emotion)]
    /\ UNCHANGED <<text_model, constructions, started, last, vaderSeed, tieUp, memo>>

----------------------------------------------------------------------------
(* Texts *)

Whitespace == {" "}
Alphabet == {" ", "a"}

RECURSIVE TextsOfLength(_)
TextsOfLength(n) ==
    IF n = 0 THEN {<<>>}
    ELSE {Append(t, c) : t \in TextsOfLength(n - 1), c \in Alphabet}

ShortTexts == UNION {TextsOfLength(n) : n \in 0..MaxTextChars}

\* texts that contain a word of the negative-word lexicon
SampleTexts == {<<"s", "a", "d">>, <<" ", "h", "u", "r", "t", " ">>}

Fill(n, x) == [i \in 1..n |-> x]

\* a text at the length limit and one just over it
LongTexts == {Fill(MaxLength, "a"), Fill(MaxLength + 1, "a")}

Texts == ShortTexts \cup SampleTexts \cup LongTexts

\* the entries of a short batch: empty, blank, padded and plain texts
BatchEntries == {<<>>, <<" ">>, <<"a">>, <<" ", "a", " ">>, <<"s", "a", "d">>}

RECURSIVE BatchesOfLength(_)
BatchesOfLength(n) ==
    IF n = 0 THEN {<<>>}
    ELSE {Append(b, t) : b \in BatchesOfLength(n - 1), t \in BatchEntries}

\* a batch at the size limit and one just over it, all entries non-blank or
\* every second entry blank
BigBatches ==
    {Fill(n, <<"a">>) : n \in {MaxBatch, MaxBatch + 1}}
    \cup {[i \in 1..n |-> IF i % 2 = 0 THEN <<" ">> ELSE <<"a", " ">>] :
              n \in {MaxBatch, MaxBatch + 1}}

Batches ==
    UNION {BatchesOfLength(n) : n \in 0..MaxSmallBatch}
    \cup {<<t>> : t \in LongTexts}
    \cup BigBatches

\* a mutant of strip: nothing is trimmed
no_strip(s) == s

\* str.strip(): the text without its leading and trailing whitespace
strip(s) ==
    IF s = <<>> THEN s
    ELSE IF s[1] \notin Whitespace /\ s[Len(s)] \notin Whitespace THEN s
    ELSE IF \A i \in 1..Len(s) : s[i] \in Whitespace THEN <<>>
    ELSE LET first == CHOOSE i \in 1..Len(s) :
                          /\ s[i] \notin Whitespace
                          /\ \A j \in 1..(i - 1) : s[j] \in Whitespace
             final == CHOOSE i \in 1..Len(s) :
                          /\ s[i] \notin Whitespace
                          /\ \A j \in (i + 1)..Len(s) : s[j] \in Whitespace
         IN  SubSeq(s, first, final)

----------------------------------------------------------------------------
(* utils/analysis.py: analyze_sentiment, extract_linguistic_features *)

\* vader.polarity_scores(text)['compound'], over Den: VADER is an external
\* analyzer, a fixed function of the text; seed selects which one
analyze_sentiment(seed, text) ==
    2 * ((((seed + 1) * (Len(text) + 1) * 37) % (2 * CompoundSteps + 1)) - CompoundSteps)

negative_words ==
    {<<"s", "a", "d">>,
     <<"d", "e", "p", "r", "e", "s", "s", "e", "d">>,
     <<"h", "o", "p", "e", "l", "e", "s", "s">>,
     <<"w", "o", "r", "t", "h", "l", "e", "s", "s">>,
     <<"t", "i", "r", "e", "d">>,
     <<"e", "x", "h", "a", "u", "s", "t", "e", "d">>,
     <<"a", "l", "o", "n", "e">>,
     <<"l", "o", "n", "e", "l", "y">>,
     <<"e", "m", "p", "t", "y">>,
     <<"n", "u", "m", "b">>,
     <<"h", "e", "l", "p", "l", "e", "s", "s">>,
     <<"u", "s", "e", "l", "e", "s", "s">>,
     <<"h", "o", "r", "r", "i", "b", "l", "e">>,
     <<"t", "e", "r", "r", "i", "b", "l", "e">>,
     <<"a", "w", "f", "u", "l">>,
     <<"m", "i", "s", "e", "r", "a", "b", "l", "e">>,
     <<"h", "a", "t", "e">>,
     <<"h", "u", "r", "t">>}

\* the positions at which word occurs in text
Occurrences(text, word) ==
    {i \in 1..(Len(text) - Len(word) + 1) :
        /\ text[i] = word[1]
        /\ SubSeq(text, i, i + Len(word) - 1) = word}

\* str.count scans left to right and counts occurrences that do not overlap
RECURSIVE CountFrom(_, _, _)
CountFrom(occ, from, width) ==
    LET rest == {i \in occ : i >= from}
    IN  IF rest = {} THEN 0
        ELSE LET i == CHOOSE j \in rest : \A k \in rest : j <= k
             IN  1 + CountFrom(rest, i + width, width)

\* text.count(word)
count(text, word) ==
    LET occ == Occurrences(text, word)
    IN  IF occ = {} THEN 0 ELSE CountFrom(occ, 1, Len(word))

RECURSIVE SumCounts(_, _)
SumCounts(text, words) ==
    IF words = {} THEN 0
    ELSE LET w == CHOOSE x \in words : TRUE
         IN  count(text, w) + SumCounts(text, words \ {w})

\* str.lower() on the characters of the model's texts
lower(text) ==
    [i \in 1..Len(text) |->
        CASE text[i] = "A" -> "a"
          [] text[i] = "I" -> "i"
          [] OTHER -> text[i]]

Range(f) == {f[i] : i \in DOMAIN f}

\* a mutant of negative_word_count: whether a word of the lexicon occurs, not
\* how many occurrences there are
negative_word_count_any(text) ==
    IF \E w \in negative_words : Occurrences(lower(text), w) # {} THEN 1 ELSE 0

\* extract_linguistic_features(text)['negative_words']: the sum of
\* text_lower.count(word) over the lexicon (a word with a character that the
\* text does not contain counts 0 and is not searched for)
negative_word_count(text) ==
    LET text_lower == lower(text)
        chars      == Range(text_lower)
    IN  SumCounts(text_lower, {w \in negative_words : Range(w) \subseteq chars})

\* the characters of the model's texts that \w does not match
NonWord == {" ", ".", ","}

\* re.findall(r'\b\w+\b', text): the maximal runs of word characters, each
\* given by the positions of its first and last character
words(text) ==
    LET isword(i) == text[i] \notin NonWord
        starts    == {i \in 1..Len(text) :
                         isword(i) /\ (i = 1 \/ ~isword(i - 1))}
        ends      == {j \in 1..Len(text) :
                         isword(j) /\ (j = Len(text) \/ ~isword(j + 1))}
        end(i)    == CHOOSE j \in ends :
                         j >= i /\ \A k \in ends : k >= i => j <= k
    IN  {<<i, end(i)>> : i \in starts}

\* u / t is a binary fraction, so the double that holds it is exact
Dyadic(u, t) == \E k \in 0..t : (u * 2^k) % t = 0

\* round(u / t, 3) in thousandths: to the nearest thousandth; a tie goes to
\* the even one when the double is exact and else where the double lies
round3(u, t, up) ==
    LET q == (1000 * u) \div t
        r == (1000 * u) % t
    IN  IF 2 * r < t THEN q
        ELSE IF 2 * r > t THEN q + 1
        ELSE IF Dyadic(u, t) THEN (IF q % 2 = 0 THEN q ELSE q + 1)
        ELSE IF up THEN q + 1 ELSE q

\* a mutant of lexical_diversity: the words are taken from the text as
\* written, not from text_lower
lexical_diversity_cased(text, up) ==
    LET ws           == words(text)
        unique_words == {SubSeq(text, w[1], w[2]) : w \in ws}
    IN  IF Cardinality(ws) > 0
        THEN round3(Cardinality(unique_words), Cardinality(ws), up)
        ELSE 0

\* extract_linguistic_features(text)['lexical_diversity'], in thousandths
lexical_diversity(text, up) ==
    LET text_lower   == lower(text)
        ws           == words(text_lower)
        unique_words == {SubSeq(text_lower, w[1], w[2]) : w \in ws}
    IN  IF Cardinality(ws) > 0
        THEN round3(Cardinality(unique_words), Cardinality(ws), up)
        ELSE 0

\* extract_linguistic_features(text)['total_words']
total_words(text) == Cardinality(words(lower(text)))

FeatureAlphabet == {"a", "A", "b", " ", "."}

RECURSIVE FeatureTextsOfLength(_)
FeatureTextsOfLength(n) ==
    IF n = 0 THEN {<<>>}
    ELSE {Append(t, c) : t \in FeatureTextsOfLength(n - 1), c \in FeatureAlphabet}

\* the texts accepted by validation (1 to 5000 characters) that are short
FeatureTexts == UNION {FeatureTextsOfLength(n) : n \in 1..MaxFeatureChars}

ExtractArgs ==
    {[PureIdle EXCEPT !.fn = "extract_linguistic_features", !.text = t] :
        t \in FeatureTexts}

ExtractFeatures ==
    /\ pure.fn = "extract_linguistic_features"
    /\ ~pure.done
    /\ pure' = [pure EXCEPT
                  !.done = TRUE,
                  !.negative_words = negative_word_count(pure.text),
                  !.lexical_diversity = lexical_diversity(pure.text, tieUp),
                  !.total_words = total_words(pure.text)]
    /\ UNCHANGED <<text_model, constructions, started, last, vaderSeed, tieUp, memo>>

\* the example text of the analyze-text endpoint's documentation
\* "I feel so hopeless and worthless today"
ExampleText ==
    <<"I", " ", "f", "e", "e", "l", " ", "s", "o", " ", "h", "o", "p",
      "e", "l", "e", "s", "s", " ", "a", "n", "d", " ", "w", "o", "r",
      "t", "h", "l", "e", "s", "s", " ", "t", "o", "d", "a", "y">>

\* stages 3 and 4 of analyze on a text, for every label the classifier may
\* return and every compound the sentiment analyzer may return
FeatureArgs ==
    {[PureIdle EXCEPT !.fn = "features_and_wellness", !.text = t,
                      !.emotion = e, !.compound = c] :
        t \in {ExampleText} \cup SampleTexts, e \in AnyLabel, c \in Compounds}

FeaturesAndWellness ==
    /\ pure.fn = "features_and_wellness"
    /\ ~pure.done
    /\ LET features == negative_word_count(pure.text)
       IN  pure' = [pure EXCEPT
                      !.done = TRUE,
                      !.negative_words = features,
                      !.result = calculate_wellness_score(pure.emotion, pure.compound,
                                                          features, tieUp)]
    /\ UNCHANGED <<text_model, constructions, started, last, vaderSeed, tieUp, memo>>

----------------------------------------------------------------------------
(* models/model_loader.py: TextAnalysisModel, get_text_model *)

\* the empty _text_model slot (Python's None)
NoModel == [id |-> 0, id_to_label |-> <<>>, seed |-> 0]

IsNone(m) == m.id = 0

\* what TextAnalysisModel() does when it is called: it raises (the model
\* directory, config.json, the tokenizer or the weights cannot be loaded) or
\* it returns a new instance, the n-th of the process: its id_to_label is
\* the default mapping or one read from label_mappings.json that names a
\* label outside the five known ones, its seed stands for its weights
Builds(n) ==
    {[ok |-> FALSE, inst |-> NoModel],
     [ok |-> TRUE, inst |-> [id |-> n, seed |-> 0,
         id_to_label |-> <<"joy", "sadness", "anger", "anxiety", "neutral">>]],
     [ok |-> TRUE, inst |-> [id |-> n, seed |-> 1,
         id_to_label |-> <<"joy", "sadness", "anger", "anxiety", "other">>]]}

\* a mutant of get_text_model: the slot is not tested, every call constructs
get_text_model_always(slot, build) ==
    IF build.ok
    THEN [slot |-> build.inst, model |-> build.inst, raised |-> FALSE,
          attempts |-> 1, built |-> 1]
    ELSE [slot |-> slot, model |-> NoModel, raised |-> TRUE,
          attempts |-> 1, built |-> 0]

\* a mutant of get_text_model: without the global statement the new instance
\* is bound to a local name, returned, and the slot is left as it was
get_text_model_local(slot, build) ==
    IF IsNone(slot)
    THEN IF build.ok
         THEN [slot |-> slot, model |-> build.inst, raised |-> FALSE,
               attempts |-> 1, built |-> 1]
         ELSE [slot |-> slot, model |-> NoModel, raised |-> TRUE,
               attempts |-> 1, built |-> 0]
    ELSE [slot |-> slot, model |-> slot, raised |-> FALSE,
          attempts |-> 0, built |-> 0]

\* get_text_model(): the slot after the call, the instance returned (none
\* when the call raised), whether the call raised, and how many
\* constructions it attempted and completed
get_text_model(slot, build) ==
    IF IsNone(slot)
    THEN IF build.ok
         THEN [slot |-> build.inst, model |-> build.inst, raised |-> FALSE,
               attempts |-> 1, built |-> 1]
         ELSE [slot |-> slot, model |-> NoModel, raised |-> TRUE,
               attempts |-> 1, built |-> 0]
    ELSE [slot |-> slot, model |-> slot, raised |-> FALSE,
          attempts |-> 0, built |-> 0]

\* predict_emotion(text)['primary']: the classifier is a fixed function of
\* the text, selected by the instance's weights (seed)
predict_emotion(model, text) ==
    model.id_to_label[((model.seed + Len(text)) % 5) + 1]

Stages == <<"emotion", "sentiment", "features", "wellness", "interpretation">>

NoResult ==
    [emotion |-> "none", compound |-> 0, negative_words |-> 0,
     wellness_score |-> 0, interpretation |-> NoInterpretation, input_length |-> 0]

\* a mutant of AnalysisResult: the wellness score is computed before the
\* features are extracted, from no negative word
AnalysisResult_early(model, seed, up, text) ==
    LET emotion        == predict_emotion(model, text)
        sentiment      == analyze_sentiment(seed, text)
        wellness_score == calculate_wellness_score(emotion, sentiment, 0, up)
        features       == negative_word_count(text)
        interpretation == get_interpretation(wellness_score, emotion)
    IN  [emotion |-> emotion, compound |-> sentiment, negative_words |-> features,
         wellness_score |-> wellness_score, interpretation |-> interpretation,
         input_length |-> Len(text)]

\* the record analyze builds when no stage raises
AnalysisResult(model, seed, up, text) ==
    LET emotion        == predict_emotion(model, text)
        sentiment      == analyze_sentiment(seed, text)
        features       == negative_word_count(text)
        wellness_score == calculate_wellness_score(emotion, sentiment, features, up)
        interpretation == get_interpretation(wellness_score, emotion)
    IN  [emotion |-> emotion, compound |-> sentiment, negative_words |-> features,
         wellness_score |-> wellness_score, interpretation |-> interpretation,
         input_length |-> Len(text)]

\* a mutant of analyze: the except clause swallows the exception
analyze_swallow(model, seed, up, text, fault) ==
    [raised |-> FALSE,
     trace  |-> SubSeq(Stages, 1, IF fault = 0 THEN Len(Stages) ELSE fault),
     result |-> AnalysisResult(model, seed, up, text)]

\* TextAnalysisModel.analyze(text): fault = 0 when no stage raises, else the
\* number of the stage that raises; trace is the stages entered
analyze(model, seed, up, text, fault) ==
    [raised |-> fault # 0,
     trace  |-> SubSeq(Stages, 1, IF fault = 0 THEN Len(Stages) ELSE fault),
     result |-> IF fault = 0 THEN AnalysisResult(model, seed, up, text) ELSE NoResult]

----------------------------------------------------------------------------
(* api/routes.py and main.py: the handlers.  Every handler is an async def *)
(* with no await in it, so the event loop runs it from start to end before *)
(* it runs another: a handler is one step.  A handler yields the slot      *)
(* after it, the number of instances it built, and a log of what it did:   *)
(* the response (status, success, error, health, count, results) and the   *)
(* calls it made (fetches of get_text_model, constructions attempted,      *)
(* texts passed to model.analyze with the stages each entered).            *)

NewLog(ep, texts) ==
    [ep |-> ep, texts |-> texts, status |-> 0, success |-> "none", error |-> "none",
     health |-> "none", model_loaded |-> "none", count |-> 0, results |-> <<>>,
     fetches |-> 0, attempts |-> 0, instance |-> 0, init_failed |-> FALSE, stage_failed |-> FALSE,
     calls |-> <<>>, traces |-> <<>>]

\* TextInput.text: Field(..., min_length=1, max_length=5000)
text_input_valid(raw) == Len(raw) >= 1 /\ Len(raw) <= MaxLength

\* a mutant of analyze_text: the handler constructs a TextAnalysisModel of
\* its own for the request and leaves the slot alone
analyze_text_own_model(slot, raw, build, fault, seed, up) ==
    LET log  == NewLog("analyze-text", <<raw>>)
        text == strip(raw)
        g    == IF build.ok
                THEN [slot |-> slot, model |-> build.inst, raised |-> FALSE,
                      attempts |-> 1, built |-> 1]
                ELSE [slot |-> slot, model |-> NoModel, raised |-> TRUE,
                      attempts |-> 1, built |-> 0]
        a    == analyze(g.model, seed, up, text, fault)
        logg == [log EXCEPT !.fetches = 1, !.attempts = g.attempts,
                            !.instance = g.model.id]
        loga == [logg EXCEPT !.calls = <<text>>, !.traces = <<a.trace>>]
    IN  IF ~text_input_valid(raw)
        THEN [slot |-> slot, built |-> 0,
              log |-> [log EXCEPT !.status = 422, !.error = "validation error"]]
        ELSE IF text = <<>>
        THEN [slot |-> slot, built |-> 0,
              log |-> [log EXCEPT !.status = 400, !.error = "Text cannot be empty"]]
        ELSE IF g.raised
        THEN [slot |-> g.slot, built |-> g.built,
              log |-> [logg EXCEPT !.status = 200, !.success = "false",
                                   !.error = "model load error", !.init_failed = TRUE]]
        ELSE IF a.raised
        THEN [slot |-> g.slot, built |-> g.built,
              log |-> [loga EXCEPT !.status = 200, !.success = "false",
                                   !.error = "analysis error", !.stage_failed = TRUE]]
        ELSE [slot |-> g.slot, built |-> g.built,
              log |-> [loga EXCEPT !.status = 200, !.success = "true",
                                   !.results = <<a.result>>]]

\* analyze_text(input_data); user_id, timestamp and processing_time are
\* copied into the response and left out here
analyze_text(slot, raw, build, fault, seed, up) ==
    LET log  == NewLog("analyze-text", <<raw>>)
        text == strip(raw)
        g    == get_text_model(slot, build)
        a    == analyze(g.model, seed, up, text, fault)
        logg == [log EXCEPT !.fetches = 1, !.attempts = g.attempts,
                            !.instance = g.model.id]
        loga == [logg EXCEPT !.calls = <<text>>, !.traces = <<a.trace>>]
    IN  IF ~text_input_valid(raw)
        THEN [slot |-> slot, built |-> 0,
              log |-> [log EXCEPT !.status = 422, !.error = "validation error"]]
        ELSE IF text = <<>>
        THEN [slot |-> slot, built |-> 0,
              log |-> [log EXCEPT !.status = 400, !.error = "Text cannot be empty"]]
        ELSE IF g.raised
        THEN [slot |-> g.slot, built |-> g.built,
              log |-> [logg EXCEPT !.status = 200, !.success = "false",
                                   !.error = "model load error", !.init_failed = TRUE]]
        ELSE IF a.raised
        THEN [slot |-> g.slot, built |-> g.built,
              log |-> [loga EXCEPT !.status = 200, !.success = "false",
                                   !.error = "analysis error", !.stage_failed = TRUE]]
        ELSE [slot |-> g.slot, built |-> g.built,
              log |-> [loga EXCEPT !.status = 200, !.success = "true",
                                   !.results = <<a.result>>]]

\* a mutant of health_check: model_loaded is read from the slot as it was
\* before get_text_model() ran
health_check_stale(slot, build) ==
    LET log == NewLog("health", <<>>)
        g   == get_text_model(slot, build)
        model_loaded == ~IsNone(slot)
    IN  [slot |-> g.slot, built |-> g.built,
         log |-> [log EXCEPT !.status = 200, !.fetches = 1, !.attempts = g.attempts,
                             !.instance = g.model.id, !.init_failed = g.raised,
                             !.health = IF model_loaded THEN "healthy" ELSE "degraded",
                             !.model_loaded = IF model_loaded THEN "true" ELSE "false"]]

\* health_check()
health_check(slot, build) ==
    LET log == NewLog("health", <<>>)
        g   == get_text_model(slot, build)
        model_loaded == ~g.raised
    IN  [slot |-> g.slot, built |-> g.built,
         log |-> [log EXCEPT !.status = 200, !.fetches = 1, !.attempts = g.attempts,
                             !.instance = g.model.id, !.init_failed = g.raised,
                             !.health = IF model_loaded THEN "healthy" ELSE "degraded",
                             !.model_loaded = IF model_loaded THEN "true" ELSE "false"]]

\* model_info()
model_info(slot, build) ==
    LET log  == NewLog("model-info", <<>>)
        g    == get_text_model(slot, build)
        logg == [log EXCEPT !.fetches = 1, !.attempts = g.attempts,
                            !.instance = g.model.id]
    IN  IF g.raised
        THEN [slot |-> g.slot, built |-> g.built,
              log |-> [logg EXCEPT !.status = 500, !.error = "Model not loaded",
                                   !.init_failed = TRUE]]
        ELSE [slot |-> g.slot, built |-> g.built, log |-> [logg EXCEPT !.status = 200]]

\* a mutant of too_many: the batch size is not limited
too_many_never(texts) == FALSE

\* if len(texts) > 50
too_many(texts) == Len(texts) > MaxBatch

\* a mutant of kept: the entry is tested without being stripped
kept_unstripped(text) == text # <<>>

\* if text.strip(): the entry is analyzed
kept(text) == strip(text) # <<>>

\* a mutant of batch_loop: an analysis that raises is dropped, the results
\* gathered before it are kept and the loop is left without an exception
batch_loop_salvage(model, seed, up, texts, faultAt, fault) ==
    LET stop   == IF faultAt \in 1..Len(texts) /\ fault # 0 /\ kept(texts[faultAt])
                  THEN faultAt ELSE 0
        seen   == IF stop = 0 THEN texts ELSE SubSeq(texts, 1, stop)
        calls  == SelectSeq(seen, kept)
        done   == IF stop = 0 THEN Len(calls) ELSE Len(calls) - 1
        a(k)   == analyze(model, seed, up, calls[k], IF k > done THEN fault ELSE 0)
    IN  [calls   |-> calls,
         traces  |-> [k \in 1..Len(calls) |-> a(k).trace],
         results |-> [k \in 1..done |-> a(k).result],
         raised  |-> FALSE]

\* for text in texts: the kept entries are analyzed in order and each result
\* is appended; the analysis of entry faultAt, if that entry is kept, raises
\* in stage fault and ends the loop.  Yields the texts passed to
\* model.analyze, the stages each call entered, the results appended, and
\* whether the loop was left by an exception
batch_loop(model, seed, up, texts, faultAt, fault) ==
    LET stop   == IF faultAt \in 1..Len(texts) /\ fault # 0 /\ kept(texts[faultAt])
                  THEN faultAt ELSE 0
        seen   == IF stop = 0 THEN texts ELSE SubSeq(texts, 1, stop)
        calls  == SelectSeq(seen, kept)
        done   == IF stop = 0 THEN Len(calls) ELSE Len(calls) - 1
        a(k)   == analyze(model, seed, up, calls[k], IF k > done THEN fault ELSE 0)
    IN  [calls   |-> calls,
         traces  |-> [k \in 1..Len(calls) |-> a(k).trace],
         results |-> [k \in 1..done |-> a(k).result],
         raised  |-> stop # 0]

\* batch_analyze(texts)
batch_analyze(slot, texts, build, faultAt, fault, seed, up) ==
    LET log  == NewLog("batch-analyze", texts)
        g    == get_text_model(slot, build)
        logg == [log EXCEPT !.fetches = 1, !.attempts = g.attempts,
                            !.instance = g.model.id]
        r    == batch_loop(g.model, seed, up, texts, faultAt, fault)
        logr == [logg EXCEPT !.calls = r.calls, !.traces = r.traces]
    IN  IF too_many(texts)
        THEN [slot |-> slot, built |-> 0,
              log |-> [log EXCEPT !.status = 400,
                                  !.error = "Maximum 50 texts per batch"]]
        ELSE IF g.raised
        THEN [slot |-> g.slot, built |-> g.built,
              log |-> [logg EXCEPT !.status = 500, !.error = "model load error",
                                   !.init_failed = TRUE]]
        ELSE IF r.raised
        THEN [slot |-> g.slot, built |-> g.built,
              log |-> [logr EXCEPT !.status = 500, !.error = "analysis error",
                                   !.stage_failed = TRUE]]
        ELSE [slot |-> g.slot, built |-> g.built,
              log |-> [logr EXCEPT !.status = 200, !.success = "true",
                                   !.count = Len(r.results), !.results = r.results]]

\* startup_event(): the model is pre-loaded; a failure is printed and dropped
startup_event(slot, build) ==
    LET log == NewLog("startup", <<>>)
        g   == get_text_model(slot, build)
    IN  [slot |-> g.slot, built |-> g.built,
         log |-> [log EXCEPT !.fetches = 1, !.attempts = g.attempts,
                             !.instance = g.model.id, !.init_failed = g.raised]]

----------------------------------------------------------------------------
(* The server: start-up, then requests in any order *)

Faults == 0..Len(Stages)

\* the entries of a batch at which an analysis may be made to raise: the
\* first ones and the last one
FaultPositions(texts) ==
    {i \in 1..Len(texts) : i <= MaxSmallBatch + 1 \/ i = Len(texts)}

VaderSeeds == {0, 1}

Idle == NewLog("none", <<>>)

\* no call of model.analyze is remembered
NoMemo == [ep |-> "none", text |-> <<>>, result |-> NoResult]

\* a handler's calls of model.analyze that returned a result to the client
Returned(log) ==
    {[ep |-> log.ep, text |-> log.calls[k], result |-> log.results[k]] :
        k \in 1..Len(log.results)}

Handled(r) ==
    /\ text_model' = r.slot
    /\ constructions' = constructions + r.built
    /\ last' = r.log
    /\ UNCHANGED <<vaderSeed, tieUp, pure>>

\* what TextAnalysisModel() does if the next handler calls it.  While the
\* slot is set get_text_model() does not call it, and one outcome stands for
\* all of them
Outcomes ==
    IF IsNone(text_model) THEN Builds(constructions + 1)
    ELSE {b \in Builds(constructions + 1) : b.ok /\ b.inst.seed = 1}

\* the event loop is free: no handler's response is waiting to be sent
Serving == started /\ last = Idle /\ constructions < MaxConstructions

Startup ==
    /\ ~started
    /\ last = Idle
    /\ started' = TRUE
    /\ UNCHANGED memo
    /\ \E build \in Outcomes :
           Handled(startup_event(text_model, build))

AnalyzeText ==
    /\ Serving
    /\ UNCHANGED <<started, memo>>
    /\ \E raw \in Texts, build \in Outcomes, fault \in Faults :
           Handled(analyze_text(text_model, raw, build, fault, vaderSeed, tieUp))

HealthCheck ==
    /\ Serving
    /\ UNCHANGED <<started, memo>>
    /\ \E build \in Outcomes :
           Handled(health_check(text_model, build))

ModelInfo ==
    /\ Serving
    /\ UNCHANGED <<started, memo>>
    /\ \E build \in Outcomes :
           Handled(model_info(text_model, build))

BatchAnalyze ==
    /\ Serving
    /\ UNCHANGED <<started, memo>>
    /\ \E texts \in Batches, build \in Outcomes :
         \E faultAt \in {0} \cup FaultPositions(texts), fault \in Faults :
           /\ (faultAt = 0) <=> (fault = 0)
           /\ Handled(batch_analyze(text_model, texts, build, faultAt, fault,
                                    vaderSeed, tieUp))

\* the response of the last handler is sent
Deliver ==
    /\ last # Idle
    /\ last' = Idle
    /\ UNCHANGED <<text_model, constructions, started, vaderSeed, tieUp, pure, memo>>

Init ==
    /\ text_model = NoModel
    /\ constructions = 0
    /\ started = FALSE
    /\ last = Idle
    /\ vaderSeed \in VaderSeeds
    /\ tieUp \in BOOLEAN
    /\ pure = PureIdle
    /\ memo = NoMemo

Next ==
    \/ Startup
    \/ AnalyzeText
    \/ HealthCheck
    \/ ModelInfo
    \/ BatchAnalyze
    \/ Deliver

Spec == Init /\ [][Next]_vars

\* The same server, watched for repeated analyses: one call of model.analyze
\* that returned a result, of any request, is remembered for good, and the
\* requests carry few texts so that the same text comes again
RepeatTexts == {<<"s", "a", "d">>, <<" ", "s", "a", "d">>, <<"a">>}

RepeatBatches ==
    {<<t>> : t \in RepeatTexts}
    \cup {<<t, u>> : t \in RepeatTexts \cup {<<" ">>}, u \in RepeatTexts}

Remember(log) ==
    memo' \in IF memo = NoMemo THEN {NoMemo} \cup Returned(log) ELSE {memo}

RepeatAnalyzeText ==
    /\ Serving
    /\ UNCHANGED started
    /\ \E raw \in RepeatTexts, build \in Outcomes, fault \in Faults :
           LET r == analyze_text(text_model, raw, build, fault, vaderSeed, tieUp)
           IN  Handled(r) /\ Remember(r.log)

RepeatBatchAnalyze ==
    /\ Serving
    /\ UNCHANGED started
    /\ \E texts \in RepeatBatches, build \in Outcomes :
         \E faultAt \in {0} \cup FaultPositions(texts), fault \in Faults :
           /\ (faultAt = 0) <=> (fault = 0)
           /\ LET r == batch_analyze(text_model, texts, build, faultAt, fault,
                                     vaderSeed, tieUp)
              IN  Handled(r) /\ Remember(r.log)

RepeatNext ==
    \/ Startup
    \/ RepeatAnalyzeText
    \/ RepeatBatchAnalyze
    \/ HealthCheck
    \/ ModelInfo
    \/ Deliver

RepeatSpec == Init /\ [][RepeatNext]_vars

PureInit ==
    /\ text_model = NoModel
    /\ constructions = 0
    /\ started = FALSE
    /\ last = Idle
    /\ vaderSeed = 0
    /\ tieUp \in BOOLEAN
    /\ pure \in PureArgs \cup FeatureArgs \cup ExtractArgs
    /\ memo = NoMemo

PureNext ==
    \/ CalcWellness
    \/ Interpret
    \/ FeaturesAndWellness
    \/ ExtractFeatures

PureSpec == PureInit /\ [][PureNext]_vars

----------------------------------------------------------------------------
(* Properties *)

WellnessApplied == pure.fn = "calculate_wellness_score" /\ pure.done
InterpretationApplied == pure.fn = "get_interpretation" /\ pure.done

\* C1: for every emotion label, known or not, every compound in [-1, 1] and
\* every negative_words count >= 0, calculate_wellness_score returns a value
\* in [0, 10] with one decimal place (a whole number of tenths from 0 to 100).
C1_WellnessInRange ==
    WellnessApplied => pure.result \in 0..100

\* the score is clamped at 0: anger, compound -1.0, four or more negative words
C1_Witness ==
    /\ WellnessApplied
    /\ pure.emotion = "anger"
    /\ pure.compound = 0 - Den
    /\ pure.negative_words >= 4
    /\ pure.result = 0

\* the base table of the specification, in tenths
RefBase(emotion) ==
    IF emotion = "joy" THEN 80
    ELSE IF emotion = "sadness" THEN 30
    ELSE IF emotion = "anxiety" THEN 35
    ELSE IF emotion = "anger" THEN 25
    ELSE 50

\* base + compound * 2 - min(negative_words * 0.5, 2.0), clamped to [0, 10]
\* after the sum is formed; as a numerator over 10 * Den
RefClamped(emotion, compound, n) ==
    LET raw == RefBase(emotion) * Den + 20 * compound
               - (IF 5 * n < 20 THEN 5 * n ELSE 20) * Den
    IN  IF raw < 0 THEN 0 ELSE IF raw > 100 * Den THEN 100 * Den ELSE raw

\* tenths is a tenth nearest to x / (10 * Den)
NearestTenth(tenths, x) ==
    /\ 2 * (x - tenths * Den) <= Den
    /\ 2 * (tenths * Den - x) <= Den

\* C2: calculate_wellness_score is the reference formula, base + compound * 2
\* - min(negative_words * 0.5, 2.0) with the table joy 8.0, neutral 5.0,
\* sadness 3.0, anxiety 3.5, anger 2.5, other 5.0, clamped to [0, 10] after
\* the whole sum is formed and rounded to the nearest tenth; anger with
\* compound 0.0 and no negative word gives 2.5.
C2_WellnessIsReference ==
    WellnessApplied =>
        /\ NearestTenth(pure.result,
                        RefClamped(pure.emotion, pure.compound, pure.negative_words))
        /\ (pure.emotion = "anger" /\ pure.compound = 0 /\ pure.negative_words = 0)
               => pure.result = 25

C2_Witness ==
    /\ WellnessApplied
    /\ pure.emotion = "anger"
    /\ pure.compound = 0
    /\ pure.negative_words = 0
    /\ pure.result = 25

\* C3: get_interpretation selects exactly one of four bands: positive for
\* score >= 7.5, balanced for 5.0 <= score < 7.5, consider-talking for
\* 3.0 <= score < 5.0, reach-out for score < 3.0; a score of exactly 7.5, 5.0
\* or 3.0 selects the higher band; the sentence names the emotion given.
C3_InterpretationBands ==
    InterpretationApplied =>
        /\ pure.interpretation.band = "positive" <=> pure.score >= 75
        /\ pure.interpretation.band = "balanced" <=> (pure.score >= 50 /\ pure.score < 75)
        /\ pure.interpretation.band = "consider_talking"
               <=> (pure.score >= 30 /\ pure.score < 50)
        /\ pure.interpretation.band = "reach_out" <=> pure.score < 30
        /\ pure.interpretation.emotion = pure.emotion

C3_Witness ==
    /\ InterpretationApplied
    /\ pure.score = 75
    /\ pure.interpretation.band = "positive"

\* a text that is empty or consists of whitespace only
IsBlank(t) == \A i \in 1..Len(t) : t[i] = " "

NonBlank(texts) == SelectSeq(texts, LAMBDA t : ~IsBlank(t))

ClientError(status) == status >= 400 /\ status <= 499
ServerError(status) == status >= 500 /\ status <= 599

\* C4: an analyze-text request whose text is empty, or empty after trimming,
\* is answered with a client error, and model.analyze is not called for it.
C4_BlankTextRejected ==
    (last.ep = "analyze-text" /\ IsBlank(last.texts[1])) =>
        /\ ClientError(last.status)
        /\ last.calls = <<>>

\* a whitespace-only text passes the length validation and is rejected by
\* the handler
C4_Witness ==
    /\ last.ep = "analyze-text"
    /\ last.texts = << <<" ", " ">> >>
    /\ last.status = 400
    /\ last.calls = <<>>

\* C5: a batch-analyze call of at most 50 texts in which nothing fails (the
\* classifier is available and no analysis raises) answers successfully; the
\* blank entries are skipped, every other entry is analyzed exactly once, in
\* the order of the input, the i-th result is the analysis of the i-th
\* non-blank entry, and count is the number of non-blank entries.
C5_BatchSkipsBlank ==
    (/\ last.ep = "batch-analyze"
     /\ Len(last.texts) <= 50
     /\ ~last.init_failed
     /\ ~last.stage_failed) =>
        /\ last.status = 200
        /\ last.success = "true"
        /\ last.calls = NonBlank(last.texts)
        /\ last.count = Len(NonBlank(last.texts))
        /\ Len(last.results) = last.count
        /\ \A i \in 1..Len(last.results) :
               last.results[i] =
                   AnalysisResult(text_model, vaderSeed, tieUp, NonBlank(last.texts)[i])

\* a non-blank text, an empty one, another non-blank text: two results
C5_Witness ==
    /\ last.ep = "batch-analyze"
    /\ last.texts = << <<"a">>, <<>>, <<"s", "a", "d">> >>
    /\ last.status = 200
    /\ last.count = 2
    /\ last.results[1].input_length = 1
    /\ last.results[2].input_length = 3

\* C6: a batch-analyze call with more than 50 texts is answered with a client
\* error; model.analyze is called for none of its texts and the call neither
\* fetches nor constructs the classifier.
C6_LargeBatchRejected ==
    (last.ep = "batch-analyze" /\ Len(last.texts) > 50) =>
        /\ ClientError(last.status)
        /\ last.calls = <<>>
        /\ last.fetches = 0
        /\ last.attempts = 0

C6_Witness ==
    /\ last.ep = "batch-analyze"
    /\ Len(last.texts) = 51
    /\ last.status = 400
    /\ last.fetches = 0

\* C7: on every endpoint, every text handed to model.analyze has at most
\* 5000 characters and belongs to a call of at most 50 texts.
C7_CapsBeforePipeline ==
    \A i \in 1..Len(last.calls) :
        /\ Len(last.calls[i]) <= 5000
        /\ Len(last.texts) <= 50

\* C8: in any order of the start-up pre-load and the requests of one process,
\* at most one TextAnalysisModel is ever constructed, and the slot holds it.
C8_ConstructedAtMostOnce ==
    /\ constructions <= 1
    /\ text_model.id = constructions

\* a request finds the classifier built earlier and fetches it without
\* constructing
C8_Witness ==
    /\ constructions = 1
    /\ last.ep \in {"analyze-text", "batch-analyze", "health", "model-info"}
    /\ last.fetches = 1
    /\ last.attempts = 0

\* C9: when a stage of the pipeline raises during an analyze-text request the
\* answer is an ordinary response with success false, an error message and
\* no data; success true is answered only when every stage was completed.
C9_PipelineErrorCaught ==
    /\ (last.ep = "analyze-text" /\ last.stage_failed) =>
           /\ last.status = 200
           /\ last.success = "false"
           /\ last.error # "none"
           /\ last.results = <<>>
    /\ (last.ep = "analyze-text" /\ last.success = "true") =>
           /\ last.traces = <<Stages>>
           /\ Len(last.results) = 1

C9_Witness ==
    /\ last.ep = "analyze-text"
    /\ last.stage_failed
    /\ last.traces = << <<"emotion", "sentiment">> >>
    /\ last.status = 200
    /\ last.success = "false"

\* C10: when the classifier fails to initialize, health answers 'degraded'
\* and analyze-text, batch-analyze and model-info answer with a server error:
\* no request that needs the classifier gets another non-error response.
C10_InitFailureIsServerError ==
    (last.init_failed /\ last.ep # "startup") =>
        \/ last.ep = "health" /\ last.status = 200 /\ last.health = "degraded"
        \/ last.ep # "health" /\ ServerError(last.status)

\* the calls of model.analyze in which a stage raised
FailedCalls == {k \in 1..Len(last.traces) : last.traces[k] # Stages}

\* C11: if the pipeline fails for one text inside a batch-analyze call, the
\* call is answered with a server error and no results, also none for the
\* texts analyzed before; the failing call is the last call of model.analyze
\* (no later text is analyzed, the failing text is not analyzed again), and
\* the calls made are the non-blank entries up to the failing one, in order.
C11_BatchAbortsOnFailure ==
    (last.ep = "batch-analyze" /\ FailedCalls # {}) =>
        /\ ServerError(last.status)
        /\ last.success # "true"
        /\ last.results = <<>>
        /\ last.count = 0
        /\ FailedCalls = {Len(last.calls)}
        /\ Len(last.calls) <= Len(NonBlank(last.texts))
        /\ last.calls = SubSeq(NonBlank(last.texts), 1, Len(last.calls))

\* the second of three texts fails: the first was analyzed, the third is not
C11_Witness ==
    /\ last.ep = "batch-analyze"
    /\ last.texts = << <<"a">>, <<"s", "a", "d">>, <<"a">> >>
    /\ last.calls = << <<"a">>, <<"s", "a", "d">> >>
    /\ last.traces[1] = Stages
    /\ last.traces[2] = <<"emotion">>
    /\ last.status = 500
    /\ last.results = <<>>

\* C12: in every result of an analysis, input_length is the number of
\* characters of the text as the endpoint received it, untrimmed: for
\* analyze-text the length of the request's text, for batch-analyze the length
\* of the entry the result belongs to.
C12_InputLengthUntrimmed ==
    /\ (last.ep = "analyze-text" /\ Len(last.results) = 1) =>
            last.results[1].input_length = Len(last.texts[1])
    /\ (last.ep = "batch-analyze" /\ last.success = "true") =>
            \A k \in 1..Len(last.results) :
                last.results[k].input_length = Len(NonBlank(last.texts)[k])

\* C13: the health endpoint always answers 200, never an error: the answer
\* is 'healthy' with model_loaded true exactly when the classifier is loaded
\* (the slot is set) when the answer is given, and 'degraded' with
\* model_loaded false otherwise.
C13_HealthReportsLoaded ==
    last.ep = "health" =>
        /\ last.status = 200
        /\ last.error = "none"
        /\ \/ /\ ~IsNone(text_model)
              /\ last.health = "healthy"
              /\ last.model_loaded = "true"
           \/ /\ IsNone(text_model)
              /\ last.health = "degraded"
              /\ last.model_loaded = "false"

\* the classifier could not be constructed: the answer is 200 'degraded'
C13_Witness ==
    /\ last.ep = "health"
    /\ last.attempts = 1
    /\ last.init_failed
    /\ IsNone(text_model)
    /\ last.status = 200
    /\ last.health = "degraded"

ExampleScored ==
    pure.fn = "features_and_wellness" /\ pure.done /\ pure.text = ExampleText

\* C15 as stated: for "I feel so hopeless and worthless today" negative_words
\* is at least 2, and for every label, whenever the compound is negative the
\* wellness_score is strictly less than 5.0.
C15_ExampleBelowFive ==
    ExampleScored =>
        /\ pure.negative_words >= 2
        /\ (pure.compound < 0 => pure.result < 50)

\* C15, amended: for "I feel so hopeless and worthless today" negative_words
\* is 2 (hopeless, worthless), and whenever the compound is negative the
\* wellness_score is strictly less than 5.0 for every label other than joy;
\* for joy it is at least 5.0 (8.0 + 2 * compound - 1.0).
C15_ExampleBelowFiveExceptJoy ==
    ExampleScored =>
        /\ pure.negative_words = 2
        /\ (pure.compound < 0 /\ pure.emotion # "joy") => pure.result < 50
        /\ (pure.compound < 0 /\ pure.emotion = "joy") => pure.result >= 50

\* neutral with the least negative compound: 5.0 - 0.02 - 1.0 rounds to 4.0
C15_Witness ==
    /\ ExampleScored
    /\ pure.emotion = "neutral"
    /\ pure.compound = 0 - 2
    /\ pure.negative_words = 2
    /\ pure.result = 40

FeaturesExtracted == pure.fn = "extract_linguistic_features" /\ pure.done

\* the word tokens of the text, compared without regard to case
Tokens == {SubSeq(lower(pure.text), w[1], w[2]) : w \in words(lower(pure.text))}

\* word written n times with single spaces between, in any case
Repeated(word, n) ==
    /\ Len(pure.text) = n * (Len(word) + 1) - 1
    /\ \A i \in 1..Len(pure.text) :
           lower(pure.text)[i] = IF i % (Len(word) + 1) = 0 THEN " "
                                 ELSE word[i % (Len(word) + 1)]

RepeatedWords == {<<"a">>, <<"b">>, <<"a", "b">>, <<"b", "a">>}

\* thousandths is a thousandth nearest to 1 / n
NearestThousandth(thousandths, n) ==
    /\ 2 * (1000 - thousandths * n) <= n
    /\ 2 * (thousandths * n - 1000) <= n

\* the parts of C16 that hold of the value the code returns
LexicalDiversityBounds ==
    /\ pure.lexical_diversity \in 0..1000
    /\ (pure.total_words > 0 /\ Cardinality(Tokens) = pure.total_words)
           => pure.lexical_diversity = 1000
    /\ (\A i \in 1..Len(pure.text) : pure.text[i] \in NonWord)
           => pure.lexical_diversity = 0

\* C16 as stated: for every valid text lexical_diversity is in [0, 1], is 1.0
\* when all word tokens are distinct without regard to case, is 1/n when the
\* text is one word repeated n times, and is 0 when there is no word token.
C16_LexicalDiversityRatio ==
    FeaturesExtracted =>
        /\ LexicalDiversityBounds
        /\ \A word \in RepeatedWords, n \in 1..MaxFeatureChars :
               Repeated(word, n) => pure.lexical_diversity * n = 1000

\* C16, amended: for every valid text lexical_diversity is in [0, 1], is 1.0
\* when all word tokens are distinct without regard to case, is 1/n rounded
\* to three decimals when the text is one word repeated n times (0.333 for
\* n = 3), and is 0 when there is no word token.
C16_LexicalDiversityRounded ==
    FeaturesExtracted =>
        /\ LexicalDiversityBounds
        /\ \A word \in RepeatedWords, n \in 1..MaxFeatureChars :
               Repeated(word, n) =>
                   NearestThousandth(pure.lexical_diversity, n)

\* "a A a": one word three times, in two cases
C16_Witness ==
    /\ FeaturesExtracted
    /\ pure.text = <<"a", " ", "A", " ", "a">>
    /\ pure.total_words = 3
    /\ pure.lexical_diversity = 333

\* the calls of model.analyze in which every stage ran
CompleteCalls == {k \in 1..Len(last.traces) : last.traces[k] = Stages}

\* C17: in every call of analyze the stages run in the order emotion,
\* sentiment, features, wellness, interpretation (the stages entered are a
\* prefix of that list); the wellness score of a result is computed from that
\* result's label, compound and features, and its interpretation from that
\* result's wellness score and label; a call in which a stage raised entered
\* no later stage and gave no result: the handler returns no result at all.
C17_StagesInOrder ==
    /\ Len(last.traces) = Len(last.calls)
    /\ \A k \in 1..Len(last.traces) :
           \E n \in 1..Len(Stages) : last.traces[k] = SubSeq(Stages, 1, n)
    /\ Len(last.results) <= Cardinality(CompleteCalls)
    /\ FailedCalls # {} => last.results = <<>> /\ last.success # "true"
    /\ \A k \in 1..Len(last.results) :
           LET r == last.results[k]
           IN  /\ r.emotion = predict_emotion(text_model, last.calls[k])
               /\ r.compound = analyze_sentiment(vaderSeed, last.calls[k])
               /\ r.wellness_score =
                      calculate_wellness_score(r.emotion, r.compound,
                                               r.negative_words, tieUp)
               /\ r.interpretation = get_interpretation(r.wellness_score, r.emotion)

\* the wellness stage raises: the three stages before it ran, the
\* interpretation stage did not, and there is no result
C17_Witness ==
    /\ last.ep = "analyze-text"
    /\ last.calls = << <<"s", "a", "d">> >>
    /\ last.traces = << <<"emotion", "sentiment", "features", "wellness">> >>
    /\ last.results = <<>>
    /\ last.success = "false"

\* a handler ran get_text_model() in this step
Fetched == last' # last /\ last'.fetches = 1

\* C18: the slot only moves from unset to set.  A set slot is never reset or
\* replaced, and every call of get_text_model() that finds it set returns
\* that instance without constructing.  A call that finds it unset constructs
\* once: if the construction fails the call raises and the slot stays unset
\* (so the next call constructs again), if it succeeds the new instance is
\* returned and is in the slot.
C18_SlotStep ==
    /\ ~IsNone(text_model) => text_model' = text_model
    /\ (~IsNone(text_model) /\ Fetched) =>
           /\ last'.attempts = 0
           /\ ~last'.init_failed
           /\ last'.instance = text_model.id
    /\ (IsNone(text_model) /\ Fetched) =>
           /\ last'.attempts = 1
           /\ last'.init_failed <=> IsNone(text_model')
           /\ last'.instance = text_model'.id

C18_SlotOnlySet == [][C18_SlotStep]_vars

\* the pre-load at start-up failed and a later request constructed the
\* classifier: the slot was still unset and the call tried again
C18_Witness ==
    /\ last.ep = "model-info"
    /\ last.attempts = 1
    /\ ~last.init_failed
    /\ last.instance = 1
    /\ text_model.id = 1

\* the results of the last handler for the remembered text
Repeats ==
    {k \in 1..Len(last.results) : memo # NoMemo /\ last.calls[k] = memo.text}

\* C14: two calls of the pipeline on the same text, in one request or in two
\* with any other requests between them, give the same linguistic features,
\* the same sentiment and the same wellness score (the classifier and the
\* sentiment analyzer being fixed functions of the text).
C14_SameTextSameResult ==
    \A k \in Repeats :
        /\ last.results[k].negative_words = memo.result.negative_words
        /\ last.results[k].compound = memo.result.compound
        /\ last.results[k].wellness_score = memo.result.wellness_score

\* "sad" was analyzed for an analyze-text request and is analyzed again as
\* the second entry of a later batch
C14_Witness ==
    /\ memo.ep = "analyze-text"
    /\ memo.text = <<"s", "a", "d">>
    /\ last.ep = "batch-analyze"
    /\ last.texts = << <<"a">>, <<"s", "a", "d">> >>
    /\ Repeats = {2}

====
